---- MODULE Spec2Model ----
(***************************************************************************)
(* The aggregation pipeline of data/aggregate.py: aggregate_data(year)     *)
(* loads the per-source projection files and the ADP file, merges them,    *)
(* computes VORP, Volatility and Tier, sorts by VORP and writes the JSON   *)
(* artifact.                                                               *)
(*                                                                         *)
(* Modelling conventions                                                   *)
(*  - A DataFrame is a record [cols |-> set of column names,               *)
(*    rows |-> sequence of rows]; a row is a function from the column      *)
(*    names to values.                                                     *)
(*  - Every number is a fixed-point integer counting hundredths (Scale),   *)
(*    the precision the code itself rounds to (round(.., 2)).              *)
(*  - A missing numeric value (numpy nan) is the integer NaN, a missing    *)
(*    value of an object column is the string None.                        *)
(*  - pandas is modelled with the semantics of the 1.x series, under       *)
(*    which the code runs (groupby(..).mean() drops the non-numeric        *)
(*    columns, merge tolerates suffixed names that already exist).         *)
(***************************************************************************)
EXTENDS Integers, Sequences, FiniteSets, TLC

VARIABLES
    projDir,      \* raw/projections: file name -> DataFrame as read_csv would parse it
    adpDir,       \* raw/adp: file name -> DataFrame as read_csv would parse it
    outFile,      \* processed/Projections-<year>.json: [exists, rows]
    pc,           \* the statement of aggregate_data that runs next
    error,        \* the exception that ended the run and the statement that
                  \* raised it, or NoError
    listing,      \* what os.listdir returned in load_projections
    projections,  \* aggregate_data's local `projections`
    adp,          \* aggregate_data's local `adp`
    df,           \* aggregate_data's local `df`
    df_final,     \* aggregate_data's local `df_final`
    run,          \* 1 for the first invocation, 2 for a re-run on the same files
    firstOut,     \* the artifact the first invocation wrote (for the re-run)
    firstDf       \* the first invocation's df when it ended (for the re-run)

vars == <<projDir, adpDir, outFile, pc, error, listing, projections, adp, df,
          df_final, run, firstOut, firstDf>>

-----------------------------------------------------------------------------
(* Values *)

Scale == 100
NaN == -99999999
None == "nan"

IsNaN(v) == v = NaN

NoError == "none"

\* The value of `error` while no exception has been raised, and once statement
\* `stage` has raised `exc`.
NotRaised == [exc |-> NoError, stage |-> "none"]

Raised(exc, stage) == IF exc = NoError THEN NotRaised ELSE [exc |-> exc, stage |-> stage]

EmptyFrame == [cols |-> {}, rows |-> <<>>]

-----------------------------------------------------------------------------
(* Strings: Python's str operations, character by character *)

Alphabet == " -.0123456789ABCDEFGHIJKLMNOPQRSTUVWXYZ_abcdefghijklmnopqrstuvwxyz"

Char(s, i) == SubSeq(s, i, i)

\* ord(c): the position of c in the ASCII ordering of the characters used.
Ord == [c \in {Char(Alphabet, i) : i \in 1..Len(Alphabet)} |->
           CHOOSE i \in 1..Len(Alphabet) : Char(Alphabet, i) = c]

RECURSIVE StrLessFrom(_, _, _)
StrLessFrom(a, b, i) ==
    IF i > Len(b) THEN FALSE
    ELSE IF i > Len(a) THEN TRUE
    ELSE IF Char(a, i) = Char(b, i) THEN StrLessFrom(a, b, i + 1)
    ELSE Ord[Char(a, i)] < Ord[Char(b, i)]

StrLess(a, b) == StrLessFrom(a, b, 1)

EndsWith(s, suffix) ==
    /\ Len(s) >= Len(suffix)
    /\ SubSeq(s, Len(s) - Len(suffix) + 1, Len(s)) = suffix

StartsWith(s, prefix) ==
    /\ Len(s) >= Len(prefix)
    /\ SubSeq(s, 1, Len(prefix)) = prefix

Contains(s, part) ==
    \E i \in 1..(Len(s) - Len(part) + 1) : SubSeq(s, i, i + Len(part) - 1) = part

RECURSIVE Replace(_, _, _)
Replace(s, old, new) ==
    IF Len(s) = 0 THEN ""
    ELSE (IF Char(s, 1) = old THEN new ELSE Char(s, 1))
         \o Replace(SubSeq(s, 2, Len(s)), old, new)

\* str.split(sep): the pieces between separators; with sep = " " standing for
\* split() without argument, empty pieces are dropped.
RECURSIVE SplitFrom(_, _, _, _)
SplitFrom(s, sep, i, cur) ==
    IF i > Len(s) THEN
        (IF sep = " " /\ cur = "" THEN <<>> ELSE <<cur>>)
    ELSE IF Char(s, i) = sep THEN
        (IF sep = " " /\ cur = "" THEN <<>> ELSE <<cur>>) \o SplitFrom(s, sep, i + 1, "")
    ELSE SplitFrom(s, sep, i + 1, cur \o Char(s, i))

Split(s, sep) == SplitFrom(s, sep, 1, "")

RECURSIVE Join(_, _)
Join(sep, parts) ==
    IF Len(parts) = 0 THEN ""
    ELSE IF Len(parts) = 1 THEN parts[1]
    ELSE parts[1] \o sep \o Join(sep, Tail(parts))

standardize_player_name(name) ==
    LET parts == Split(Replace(name, ".", ""), " ")
    IN  Join(" ", SubSeq(parts, 1, IF Len(parts) < 2 THEN Len(parts) ELSE 2))

-----------------------------------------------------------------------------
(* Sequences *)

\* TLC evaluates a function constructor again at every application; these two
\* build the sequence, or the function, once.
MkSeq(s) == s \o <<>>

MkFcn(f) == f @@ <<>>

RECURSIVE Flatten(_)
Flatten(ss) == IF Len(ss) = 0 THEN <<>> ELSE Head(ss) \o Flatten(Tail(ss))

Range(s) == {s[i] : i \in 1..Len(s)}

RECURSIVE SetToSeq(_)
SetToSeq(S) ==
    IF S = {} THEN <<>>
    ELSE LET x == CHOOSE x \in S : TRUE IN <<x>> \o SetToSeq(S \ {x})

RECURSIVE SumSeq(_)
SumSeq(s) == IF Len(s) = 0 THEN 0 ELSE Head(s) + SumSeq(Tail(s))

\* The indices of keys, smallest key first, equal keys in their original order
\* (a stable sort by insertion).
RECURSIVE InsertIdx(_, _, _)
InsertIdx(i, s, keys) ==
    IF Len(s) = 0 THEN <<i>>
    ELSE IF keys[i] < keys[Head(s)] THEN <<i>> \o s
    ELSE <<Head(s)>> \o InsertIdx(i, Tail(s), keys)

RECURSIVE SortIdxFrom(_, _, _)
SortIdxFrom(keys, i, acc) ==
    IF i > Len(keys) THEN acc
    ELSE SortIdxFrom(keys, i + 1, InsertIdx(i, acc, keys))

SortIdx(keys) == SortIdxFrom(keys, 1, <<>>)

\* The distinct values of s in order of first appearance (Series.unique).
RECURSIVE UniqueFrom(_, _, _)
UniqueFrom(s, i, acc) ==
    IF i > Len(s) THEN acc
    ELSE UniqueFrom(s, i + 1, IF s[i] \in Range(acc) THEN acc ELSE Append(acc, s[i]))

Unique(s) == UniqueFrom(s, 1, <<>>)

Column(frame, c) == MkSeq([i \in 1..Len(frame.rows) |-> frame.rows[i][c]])


\* round(n / d) to the nearest integer, halves to the even neighbour (d > 0).
RoundDiv(n, d) ==
    LET q == n \div d
        r == n % d
    IN  IF 2 * r < d THEN q
        ELSE IF 2 * r > d THEN q + 1
        ELSE IF q % 2 = 0 THEN q ELSE q + 1

-----------------------------------------------------------------------------
(* The player names of the input files, and their order as Python strings *)

NumBackground == 14

Sources == {"CBS", "ESPN", "FantasyPros"}

\* The background roster: NumBackground tight ends on which every source
\* agrees, so that the position is populated around its thresholds.
BgName(i) == "Bg P" \o (IF i < 10 THEN "0" ELSE "") \o ToString(i)

\* The first varied player, as each source spells the name.
HockensonIn(source) ==
    CASE source = "CBS" -> "T.J. Hockenson"
      [] source = "ESPN" -> "TJ Hockenson Jr."
      [] OTHER -> "TJ  Hockenson"

RawNames ==
    {BgName(i) : i \in 1..NumBackground} \cup {HockensonIn(s) : s \in Sources}
    \cup {"TJ Hockenson II", "Will Dissly", "Justin Tucker", "Josh Allen",
          "Rob Gronkowski"}

KnownNames == {standardize_player_name(n) : n \in RawNames}

\* The number of known names that sort before n (str.__lt__).
StrRank == [n \in KnownNames |-> Cardinality({m \in KnownNames : StrLess(m, n)})]

\* sorted(S) for a set of player names.
SortStrings(S) ==
    LET before == MkFcn([n \in S |-> Cardinality({m \in S : StrRank[m] < StrRank[n]})])
    IN  MkSeq([i \in 1..Cardinality(S) |-> CHOOSE n \in S : before[n] = i - 1])

-----------------------------------------------------------------------------
(* pandas *)

\* The columns pandas reads as dtype object; every other column is numeric.
\* A suffixed copy ("Pos_3") keeps the dtype of its column.
ObjectColumns == {"Player", "Team", "Pos"}

IsObjectCol(c) == \E b \in ObjectColumns : StartsWith(c, b)

Missing(c) == IF IsObjectCol(c) THEN None ELSE NaN

RowsOf(frame, k) == SelectSeq(frame.rows, LAMBDA r : r["Player"] = k)

PlayersOf(frame) == Range(Column(frame, "Player"))

\* DataFrame.rename(columns = {old: new}) on one row.
RenameRow(r, old, new) ==
    IF old \in DOMAIN r
    THEN MkFcn([c \in (DOMAIN r \ {old}) \cup {new} |-> IF c = new THEN r[old] ELSE r[c]])
    ELSE r

RenameCols(cols, old, new) ==
    IF old \in cols THEN (cols \ {old}) \cup {new} ELSE cols

\* Series.mean() / GroupBy.mean(): the mean of the values present, NaN when
\* none is.
Mean(vals) ==
    LET present == SelectSeq(vals, LAMBDA v : ~IsNaN(v))
    IN  IF Len(present) = 0 THEN NaN ELSE SumSeq(present) \div Len(present)

\* pd.merge(left, right, on = 'Player', how = how, suffixes = (lsuffix, '')).
\* A column of both frames keeps its name on the right and gets lsuffix on the
\* left.  how = "outer" orders the result by key, how = "left" keeps the order
\* of the left rows; rows with equal keys are paired left-major.
merge(left, right, how, lsuffix) ==
    LET overlap == (left.cols \cap right.cols) \ {"Player"}
        L(c) == IF c \in overlap THEN c \o lsuffix ELSE c
        lcols == {L(c) : c \in left.cols}
        cols == lcols \cup right.cols
        Origin(c) == IF \E o \in overlap : o \o lsuffix = c
                     THEN CHOOSE o \in overlap : o \o lsuffix = c
                     ELSE c
        origin == MkFcn([c \in lcols |-> Origin(c)])
        Joined(lr, rr) ==
            MkFcn([c \in cols |-> IF c = "Player" THEN lr["Player"]
                                  ELSE IF c \in right.cols THEN rr[c]
                                  ELSE lr[origin[c]]])
        LeftOnly(lr) ==
            MkFcn([c \in cols |-> IF c \in lcols THEN lr[origin[c]] ELSE Missing(c)])
        RightOnly(rr) ==
            MkFcn([c \in cols |-> IF c \in right.cols THEN rr[c] ELSE Missing(c)])
        Matches(lr) ==
            LET rrows == RowsOf(right, lr["Player"])
            IN  IF Len(rrows) = 0 THEN <<LeftOnly(lr)>>
                ELSE MkSeq([j \in 1..Len(rrows) |-> Joined(lr, rrows[j])])
        ForKey(k) ==
            LET lrows == RowsOf(left, k)
            IN  IF Len(lrows) = 0
                THEN LET rrows == RowsOf(right, k)
                     IN  MkSeq([j \in 1..Len(rrows) |-> RightOnly(rrows[j])])
                ELSE Flatten(MkSeq([i \in 1..Len(lrows) |-> Matches(lrows[i])]))
        keys == SortStrings(PlayersOf(left) \cup PlayersOf(right))
    IN  [cols |-> cols,
         rows |-> IF how = "outer"
                  THEN Flatten(MkSeq([i \in 1..Len(keys) |-> ForKey(keys[i])]))
                  ELSE Flatten(MkSeq([i \in 1..Len(left.rows) |->
                                         Matches(left.rows[i])]))]

\* df.groupby('Player').mean()[numeric_cols].reset_index(): one row per player,
\* players in sorted order.
GroupByMean(frame, numeric_cols) ==
    LET keys == SortStrings(PlayersOf(frame))
        Agg(k) ==
            LET rs == RowsOf(frame, k)
            IN  MkFcn([c \in numeric_cols \cup {"Player"} |->
                    IF c = "Player" THEN k
                    ELSE Mean(MkSeq([i \in 1..Len(rs) |-> rs[i][c]]))])
    IN  [cols |-> numeric_cols \cup {"Player"},
         rows |-> MkSeq([i \in 1..Len(keys) |-> Agg(keys[i])])]

\* frame.select_dtypes(exclude = np.number).drop_duplicates(subset = ['Player']):
\* the object columns of the first row of each player.
MetaCols(frame) ==
    LET ocols == {c \in frame.cols : IsObjectCol(c)}
        names == Column(frame, "Player")
        first == {i \in 1..Len(names) : \A j \in 1..(i - 1) : names[j] # names[i]}
        kept == SelectSeq(MkSeq([i \in 1..Len(names) |-> i]), LAMBDA i : i \in first)
    IN  [cols |-> ocols,
         rows |-> MkSeq([n \in 1..Len(kept) |->
                     MkFcn([c \in ocols |-> frame.rows[kept[n]][c]])])]

\* frame[c] = vals: column c holds vals[i] in row i.
WithColumn(frame, c, vals) ==
    [cols |-> frame.cols \cup {c},
     rows |-> MkSeq([i \in 1..Len(frame.rows) |->
                 MkFcn([k \in frame.cols \cup {c} |->
                     IF k = c THEN vals[i] ELSE frame.rows[i][k]])])]

\* DataFrame.get(c, 0) at one row: the cell when the frame has the column,
\* the default 0 when it has not.
Get(frame, r, c) == IF c \in frame.cols THEN r[c] ELSE 0

-----------------------------------------------------------------------------
(* load_projections *)

Year == "2025"

StatColumns ==
    <<"Pass_Yds", "Pass_TD", "Int", "Rush_Yds", "Rush_TD", "Rec", "Rec_Yds", "Rec_TD">>

\* Lines 56-64: one source file, names standardized, its rank column renamed.
ReadSource(dir, file) ==
    LET source == Split(file, "-")[1]
        raw == dir[file]
        named == MkSeq([i \in 1..Len(raw.rows) |->
                    [raw.rows[i] EXCEPT !["Player"] = standardize_player_name(@)]])
        rank == source \o "_Rank"
    IN  [cols |-> RenameCols(RenameCols(raw.cols, "Rank", rank), "Overall", rank),
         rows |-> MkSeq([i \in 1..Len(named) |->
                     RenameRow(RenameRow(named[i], "Rank", rank), "Overall", rank)])]

\* Lines 68-70: the pairwise outer merge, left to right.
RECURSIVE MergeAllFrom(_, _, _)
MergeAllFrom(df_merged, df_list, i) ==
    IF i > Len(df_list) THEN df_merged
    ELSE MergeAllFrom(merge(df_merged, df_list[i], "outer",
                            "_" \o ToString(Len(df_list))),
                      df_list, i + 1)

\* Lines 81-90: the half-PPR score of one row, in hundredths.  A stat whose
\* column is absent counts 0 (DataFrame.get); a NaN cell makes the sum NaN.
ProjectedPoints(frame, r) ==
    LET pass_yds == Get(frame, r, "Pass_Yds")
        pass_td  == Get(frame, r, "Pass_TD")
        int      == Get(frame, r, "Int")
        rush_yds == Get(frame, r, "Rush_Yds")
        rush_td  == Get(frame, r, "Rush_TD")
        rec      == Get(frame, r, "Rec")
        rec_yds  == Get(frame, r, "Rec_Yds")
        rec_td   == Get(frame, r, "Rec_TD")
    IN  IF NaN \in {pass_yds, pass_td, int, rush_yds, rush_td, rec, rec_yds, rec_td}
        THEN NaN
        ELSE RoundDiv(2 * pass_yds + 200 * pass_td - 100 * int + 5 * rush_yds
                      + 300 * rush_td + 25 * rec + 5 * rec_yds + 300 * rec_td, 50)

\* load_projections(year) when os.listdir returns `files` (a sequence of names).
load_projections(dir, files) ==
    LET projection_files == SelectSeq(files, LAMBDA f : EndsWith(f, "-" \o Year \o ".csv"))
    IN  IF \E i \in 1..Len(projection_files) :
              "Player" \notin dir[projection_files[i]].cols
        THEN [error |-> "KeyError", frame |-> EmptyFrame]
        ELSE IF Len(projection_files) = 0
        THEN [error |-> "IndexError", frame |-> EmptyFrame]
        ELSE
        LET df_list == MkSeq([i \in 1..Len(projection_files) |->
                                 ReadSource(dir, projection_files[i])])
            df_merged == MergeAllFrom(df_list[1], df_list, 2)
            numeric_cols == {c \in df_merged.cols : ~IsObjectCol(c)}
            df_agg == GroupByMean(df_merged, numeric_cols)
            meta_cols == MetaCols(df_merged)
            joined == merge(df_agg, meta_cols, "left", "_x")
        IN  [error |-> NoError,
             frame |-> WithColumn(joined, "Projected_Points",
                          MkSeq([i \in 1..Len(joined.rows) |->
                                    ProjectedPoints(joined, joined.rows[i])]))]

-----------------------------------------------------------------------------
(* load_adp *)

AdpFileName == "FantasyPros-" \o Year \o ".csv"

\* Lines 96-99: read the ADP file, standardize the names, keep Player and ADP.
load_adp(dir) ==
    IF AdpFileName \notin DOMAIN dir
    THEN [error |-> "FileNotFoundError", frame |-> EmptyFrame]
    ELSE IF ~({"Player", "ADP"} \subseteq dir[AdpFileName].cols)
    THEN [error |-> "KeyError", frame |-> EmptyFrame]
    ELSE LET df_adp == dir[AdpFileName]
         IN  [error |-> NoError,
              frame |-> [cols |-> {"Player", "ADP"},
                         rows |-> MkSeq([i \in 1..Len(df_adp.rows) |->
                            MkFcn([c \in {"Player", "ADP"} |->
                                IF c = "Player"
                                THEN standardize_player_name(df_adp.rows[i]["Player"])
                                ELSE df_adp.rows[i]["ADP"]])])]]

-----------------------------------------------------------------------------
(* calculate_vorp *)

replacement_levels == [QB |-> 20, RB |-> 40, WR |-> 40, TE |-> 15]

\* sort_values(by = c, ascending = False): largest first, NaN last, equal
\* values in their original order.
SortDescending(frame, c) ==
    LET keys == MkSeq([i \in 1..Len(frame.rows) |->
                    IF IsNaN(frame.rows[i][c]) THEN 0 - NaN ELSE 0 - frame.rows[i][c]])
        order == SortIdx(keys)
    IN  [cols |-> frame.cols,
         rows |-> MkSeq([i \in 1..Len(order) |-> frame.rows[order[i]]])]

RowsAt(frame, pos) == SelectSeq(frame.rows, LAMBDA r : r["Pos"] = pos)

\* BaselineOf with the fallback of line 122 taken from the last player of the
\* position instead of being 0.
BaselineOfLastPlayer(df_sorted, pos) ==
    IF pos \in DOMAIN replacement_levels
    THEN LET pos_df == RowsAt(df_sorted, pos)
             replacement_player_index == replacement_levels[pos]
         IN  IF Len(pos_df) > replacement_player_index
             THEN pos_df[replacement_player_index + 1]["Projected_Points"]
             ELSE IF Len(pos_df) > 0 THEN pos_df[Len(pos_df)]["Projected_Points"]
             ELSE 0
    ELSE 0

\* Lines 114-122: the baseline of one position of `positions`.
BaselineOf(df_sorted, pos) ==
    IF pos \in DOMAIN replacement_levels
    THEN LET pos_df == RowsAt(df_sorted, pos)
             replacement_player_index == replacement_levels[pos]
         IN  IF Len(pos_df) > replacement_player_index
             THEN pos_df[replacement_player_index + 1]["Projected_Points"]
             ELSE 0
    ELSE 0

\* vorp_baselines.get(pos, 0) after the loop of lines 114-122.
vorp_baselines(df_sorted, pos) ==
    IF pos \in Range(Column(df_sorted, "Pos")) THEN BaselineOf(df_sorted, pos) ELSE 0

\* Line 125: round(Projected_Points - baseline, 2), NaN when either is NaN.
VorpOf(points, baseline) ==
    IF IsNaN(points) \/ IsNaN(baseline) THEN NaN ELSE points - baseline

calculate_vorp(frame) ==
    IF ~({"Projected_Points", "Pos"} \subseteq frame.cols)
    THEN [error |-> "KeyError", frame |-> frame]
    ELSE LET df_sorted == SortDescending(frame, "Projected_Points")
             positions == Range(Column(df_sorted, "Pos"))
             baselines == MkFcn([pos \in positions |-> vorp_baselines(df_sorted, pos)])
         IN  [error |-> NoError,
              frame |-> WithColumn(frame, "VORP",
                           MkSeq([i \in 1..Len(frame.rows) |->
                               VorpOf(frame.rows[i]["Projected_Points"],
                                      baselines[frame.rows[i]["Pos"]])]))]

-----------------------------------------------------------------------------
(* Volatility, lines 25-29 *)

\* floor(sqrt(n)) by bisection on lo..hi.
RECURSIVE ISqrtIn(_, _, _)
ISqrtIn(n, lo, hi) ==
    IF lo >= hi THEN lo
    ELSE LET mid == (lo + hi + 1) \div 2
         IN  IF mid * mid <= n THEN ISqrtIn(n, mid, hi) ELSE ISqrtIn(n, lo, mid - 1)

ISqrt(n) == ISqrtIn(n, 0, IF n < 46340 THEN n ELSE 46340)

\* Series.std(): the sample standard deviation (ddof = 1) of the values
\* present, NaN when fewer than two are.
Std(vals) ==
    LET present == SelectSeq(vals, LAMBDA v : ~IsNaN(v))
        n == Len(present)
        sum == SumSeq(present)
        squares == SumSeq(MkSeq([i \in 1..n |-> present[i] * present[i]]))
    IN  IF n < 2 THEN NaN
        ELSE ISqrt((n * squares - sum * sum) \div (n * (n - 1)))

\* Series.min() and Series.max(): over the values present, NaN when none is.
Min(vals) ==
    LET present == {v \in Range(vals) : ~IsNaN(v)}
    IN  IF present = {} THEN NaN ELSE CHOOSE v \in present : \A w \in present : v <= w

Max(vals) ==
    LET present == {v \in Range(vals) : ~IsNaN(v)}
    IN  IF present = {} THEN NaN ELSE CHOOSE v \in present : \A w \in present : v >= w

\* Line 28: 1 + 9 * (v - min) / (max - min); NaN for a NaN operand and for 0/0.
Normalize(v, min, max) ==
    IF IsNaN(v) \/ IsNaN(min) \/ IsNaN(max) THEN NaN
    ELSE IF max = min THEN NaN
    ELSE Scale + (9 * Scale * (v - min)) \div (max - min)

\* fillna left out: the value as it is.
FillNaSkipped(v, default) == v

\* Line 29: fillna(5).
FillNa(v, default) == IF IsNaN(v) THEN default ELSE v

volatility(frame) ==
    LET rank_cols == {c \in frame.cols : Contains(c, "Rank")}
        cols == SetToSeq(rank_cols)
        std == MkSeq([i \in 1..Len(frame.rows) |->
                   Std(MkSeq([j \in 1..Len(cols) |-> frame.rows[i][cols[j]]]))])
        min == Min(std)
        max == Max(std)
    IN  WithColumn(frame, "Volatility",
            MkSeq([i \in 1..Len(frame.rows) |->
                      FillNa(Normalize(std[i], min, max), 5 * Scale)]))

-----------------------------------------------------------------------------
(* calculate_tiers *)

tier_counts == [QB |-> 8, RB |-> 10, WR |-> 10, TE |-> 7]

\* The positions calculate_tiers clusters: a configured tier count and at
\* least that many players (lines 139-141).
TieredPositions(frame) ==
    {pos \in Range(Column(frame, "Pos")) :
        /\ pos \in DOMAIN tier_counts
        /\ Len(RowsAt(frame, pos)) >= tier_counts[pos]}

\* Line 144: column c of pos_df[['VORP', 'ADP']].fillna(mean), each cell as the
\* exact fraction <<numerator, denominator>>; <<NaN, 1>> where the mean is NaN
\* as well.
FilledColumn(pos_df, c) ==
    LET vals == MkSeq([j \in 1..Len(pos_df) |-> pos_df[j][c]])
        present == SelectSeq(vals, LAMBDA v : ~IsNaN(v))
        mean == IF Len(present) = 0 THEN <<NaN, 1>>
                ELSE <<SumSeq(present), Len(present)>>
    IN  MkSeq([i \in 1..Len(vals) |-> IF IsNaN(vals[i]) THEN mean ELSE <<vals[i], 1>>])

SameFraction(a, b) == a[1] * b[2] = b[1] * a[2]

\* The feature matrix of line 144, one <<VORP, ADP>> pair per row.
Features(pos_df) ==
    LET vorp == FilledColumn(pos_df, "VORP")
        adpc == FilledColumn(pos_df, "ADP")
    IN  MkSeq([i \in 1..Len(pos_df) |-> <<vorp[i], adpc[i]>>])

\* Two rows of the matrix are equal.  StandardScaler maps each column by one
\* increasing affine function, so rows are equal after scaling exactly when
\* they are equal before.
SameFeatures(features, i, j) ==
    /\ SameFraction(features[i][1], features[j][1])
    /\ SameFraction(features[i][2], features[j][2])

\* KMeans rejects a matrix that holds NaN (ValueError).
FeaturesHaveNaN(features) ==
    \E i \in 1..Len(features) : IsNaN(features[i][1][1]) \/ IsNaN(features[i][2][1])

\* What KMeans(n_clusters = k).fit_predict may return on the matrix: a label
\* in 0..k-1 for every row, equal rows getting the same label.  Which labelling
\* it is depends on the seeded initialisation; any is allowed.
KMeansLabels(features, k) ==
    LET n == Len(features)
        rep == MkSeq([i \in 1..n |->
                        CHOOSE j \in 1..i :
                            /\ SameFeatures(features, i, j)
                            /\ \A h \in 1..(j - 1) : ~SameFeatures(features, i, h)])
        points == {rep[i] : i \in 1..n}
    IN  {MkSeq([i \in 1..n |-> g[rep[i]]]) : g \in [points -> 0..(k - 1)]}

\* Line 152: the mean VORP of a cluster as <<sum, count>> over the VORPs
\* present, count 0 standing for a NaN mean.
ClusterMean(pos_df, labels, cluster) ==
    LET present == SelectSeq(MkSeq([i \in 1..Len(pos_df) |-> i]),
                             LAMBDA i : labels[i] = cluster /\ ~IsNaN(pos_df[i]["VORP"]))
    IN  <<SumSeq(MkSeq([n \in 1..Len(present) |-> pos_df[present[n]]["VORP"]])),
          Len(present)>>

\* ClusterBefore with sort_values(ascending = True): the smaller mean first.
ClusterBeforeAscending(ma, mb, a, b) ==
    IF ma[2] = 0 /\ mb[2] = 0 THEN a < b
    ELSE IF ma[2] = 0 THEN FALSE
    ELSE IF mb[2] = 0 THEN TRUE
    ELSE \/ ma[1] * mb[2] < mb[1] * ma[2]
         \/ ma[1] * mb[2] = mb[1] * ma[2] /\ a < b

\* Line 152, sort_values(ascending = False): cluster a, of mean ma, comes
\* before cluster b, of mean mb, in cluster_order: the larger mean first, NaN
\* means last, equal means in the order of the cluster ids.
ClusterBefore(ma, mb, a, b) ==
    IF ma[2] = 0 /\ mb[2] = 0 THEN a < b
    ELSE IF ma[2] = 0 THEN FALSE
    ELSE IF mb[2] = 0 THEN TRUE
    ELSE \/ ma[1] * mb[2] > mb[1] * ma[2]
         \/ ma[1] * mb[2] = mb[1] * ma[2] /\ a < b

\* Line 153: tier_map, cluster id -> 1-based place in cluster_order.
tier_map(pos_df, labels) ==
    LET clusters == Range(labels)
        means == MkFcn([c \in clusters |-> ClusterMean(pos_df, labels, c)])
    IN  MkFcn([c \in clusters |->
            1 + Cardinality({a \in clusters : ClusterBefore(means[a], means[c], a, c)})])

\* Line 154: pos_df['Tier'] = pos_df['cluster'].map(tier_map).
PositionTiers(pos_df, labels) ==
    LET map == tier_map(pos_df, labels)
    IN  MkSeq([i \in 1..Len(pos_df) |-> map[labels[i]]])

\* Lines 132-157: the Tier column of the whole frame, given the labels KMeans
\* returned for each tiered position; 0 outside the tiered positions.
TierColumn(frame, clustering) ==
    LET tiers == MkFcn([pos \in DOMAIN clustering |->
                          PositionTiers(RowsAt(frame, pos), clustering[pos])])
    IN  MkSeq([i \in 1..Len(frame.rows) |->
            LET pos == frame.rows[i]["Pos"]
            IN  IF pos \in DOMAIN clustering
                THEN tiers[pos][Cardinality({j \in 1..i : frame.rows[j]["Pos"] = pos})]
                ELSE 0])

\* The labellings KMeans may return, one per position of `tiered`.
RECURSIVE ClusteringsOver(_, _)
ClusteringsOver(frame, tiered) ==
    IF tiered = {} THEN {<<>>}
    ELSE LET pos == CHOOSE p \in tiered : TRUE
             labellings == KMeansLabels(Features(RowsAt(frame, pos)), tier_counts[pos])
         IN  {(pos :> labels) @@ rest :
                 labels \in labellings, rest \in ClusteringsOver(frame, tiered \ {pos})}

Clusterings(frame) ==
    IF \E pos \in TieredPositions(frame) : FeaturesHaveNaN(Features(RowsAt(frame, pos)))
    THEN {<<>>}
    ELSE ClusteringsOver(frame, TieredPositions(frame))

calculate_tiers(frame, clustering) ==
    IF ~({"Pos", "VORP", "ADP"} \subseteq frame.cols)
    THEN [error |-> "KeyError", frame |-> frame]
    ELSE IF \E pos \in TieredPositions(frame) :
                FeaturesHaveNaN(Features(RowsAt(frame, pos)))
    THEN [error |-> "ValueError", frame |-> frame]
    ELSE [error |-> NoError,
          frame |-> WithColumn(frame, "Tier", TierColumn(frame, clustering))]

-----------------------------------------------------------------------------
(* Final assembly, lines 36-48 *)

OutputColumns ==
    {"Player", "Team", "Pos", "VORP", "Tier", "Volatility", "ADP", "CBS_Rank",
     "ESPN_Rank", "FantasyPros_Rank", "Pass_Yds", "Pass_TD", "Int", "Rush_Yds",
     "Rush_TD", "Rec", "Rec_Yds", "Rec_TD"}

\* Lines 36-40: df[[...]].copy().
SelectColumns(frame, cols) ==
    [cols |-> cols,
     rows |-> MkSeq([i \in 1..Len(frame.rows) |->
                        MkFcn([c \in cols |-> frame.rows[i][c]])])]

\* final_assembly with a missing output column filled in (reindex) instead of
\* raising KeyError.
final_assembly_reindexed(frame) ==
    LET filled == [cols |-> OutputColumns,
                   rows |-> MkSeq([i \in 1..Len(frame.rows) |->
                               MkFcn([c \in OutputColumns |->
                                   IF c \in frame.cols THEN frame.rows[i][c]
                                   ELSE Missing(c)])])]
        sorted == SortDescending(filled, "VORP")
    IN  [error |-> NoError,
         frame |-> WithColumn(sorted, "Rank",
                              MkSeq([i \in 1..Len(sorted.rows) |-> i]))]

\* Lines 36-44: select the output columns, sort by VORP, number the rows.
final_assembly(frame) ==
    IF ~(OutputColumns \subseteq frame.cols)
    THEN [error |-> "KeyError", frame |-> EmptyFrame]
    ELSE LET sorted == SortDescending(SelectColumns(frame, OutputColumns), "VORP")
         IN  [error |-> NoError,
              frame |-> WithColumn(sorted, "Rank",
                                   MkSeq([i \in 1..Len(sorted.rows) |-> i]))]

-----------------------------------------------------------------------------
(* The input files the runs are checked on *)

MaxDeviations == 1

FileOf(source) == source \o "-" \o Year \o ".csv"

\* ESPN's table names its rank column Overall, the others Rank.
RankColumnOf(source) == IF source = "ESPN" THEN "Overall" ELSE "Rank"

SourceColumns(source) ==
    {"Player", "Team", "Pos", RankColumnOf(source)} \cup Range(StatColumns)

\* One row of a source file: a tight end, a quarterback or a kicker.
SourceRow(source, name, team, pos, rank, yds) ==
    [c \in SourceColumns(source) |->
        CASE c = "Player" -> name
          [] c = "Team" -> team
          [] c = "Pos" -> pos
          [] c = RankColumnOf(source) -> rank
          [] c = "Pass_Yds" -> IF pos = "QB" THEN yds ELSE 0
          [] c = "Pass_TD" -> IF pos = "QB" THEN 30 * Scale ELSE 0
          [] c = "Int" -> IF pos = "QB" THEN 10 * Scale ELSE 0
          [] c = "Rec" -> IF pos = "TE" THEN 50 * Scale ELSE 0
          [] c = "Rec_Yds" -> IF pos = "TE" THEN yds ELSE 0
          [] c = "Rec_TD" -> IF pos = "TE" THEN 4 * Scale ELSE 0
          [] OTHER -> 0]

BgRows(source) ==
    [i \in 1..NumBackground |->
        SourceRow(source, BgName(i), "FA", "TE", i * Scale, 500 * Scale)]

CellKinds == {"lo", "hi", "blank", "absent"}

HockensonRows(source, kind) ==
    CASE kind = "absent" -> <<>>
      [] kind = "blank" ->
            <<SourceRow(source, HockensonIn(source), "MIN", "TE", NaN, NaN)>>
      [] kind = "hi" ->
            <<SourceRow(source, HockensonIn(source), "MIN", "TE", 16 * Scale, 600 * Scale)>>
      [] OTHER ->
            <<SourceRow(source, HockensonIn(source), "MIN", "TE", 20 * Scale, 400 * Scale)>>

\* The second varied player: absent, a tight end, a kicker or a quarterback.
SecondKinds == {"none", "TE", "K", "QB"}

\* Only CBS ranks kickers.
SecondRank(source, kind) ==
    IF kind = "K" /\ source # "CBS" THEN NaN
    ELSE IF source = "ESPN" THEN 18 * Scale ELSE 17 * Scale

SecondRows(source, kind) ==
    CASE kind = "none" -> <<>>
      [] kind = "TE" ->
            <<SourceRow(source, "Will Dissly", "LAC", "TE", SecondRank(source, kind),
                        300 * Scale)>>
      [] kind = "K" ->
            <<SourceRow(source, "Justin Tucker", "BAL", "K", SecondRank(source, kind), 0)>>
      [] OTHER ->
            <<SourceRow(source, "Josh Allen", "BUF", "QB", SecondRank(source, kind),
                        4000 * Scale)>>

SecondName(kind) ==
    CASE kind = "TE" -> "Will Dissly"
      [] kind = "K" -> "Justin Tucker"
      [] OTHER -> "Josh Allen"

DropColumn(frame, c) ==
    [cols |-> frame.cols \ {c},
     rows |-> MkSeq([i \in 1..Len(frame.rows) |->
                 MkFcn([k \in frame.cols \ {c} |-> frame.rows[i][k]])])]

SourceFile(source, cell, second, hasPlayer) ==
    LET full == [cols |-> SourceColumns(source),
                 rows |-> BgRows(source) \o HockensonRows(source, cell)
                          \o SecondRows(source, second)]
    IN  IF hasPlayer THEN full ELSE DropColumn(full, "Player")

\* A projection file of an earlier season left in the directory.
OldFile ==
    [cols |-> SourceColumns("CBS"),
     rows |-> <<SourceRow("CBS", "Rob Gronkowski", "NE", "TE", 1 * Scale, 900 * Scale)>>]

OldFileName == "CBS-2024.csv"

AdpModes == {"all", "noV1", "dupV1", "noAdpCol", "missing"}

AdpRow(name, value) ==
    [c \in {"Player", "Team", "ADP"} |->
        CASE c = "Player" -> name [] c = "Team" -> "FA" [] OTHER -> value]

AdpFile(mode, second) ==
    LET full ==
          [cols |-> {"Player", "Team", "ADP"},
           rows |-> [i \in 1..NumBackground |-> AdpRow(BgName(i), 100 * Scale)]
                    \o (IF mode = "noV1" THEN <<>>
                        ELSE <<AdpRow("T.J. Hockenson", 80 * Scale)>>)
                    \o (IF mode = "dupV1"
                        THEN <<AdpRow("TJ Hockenson II", 90 * Scale)>> ELSE <<>>)
                    \o (IF second = "none" THEN <<>>
                        ELSE <<AdpRow(SecondName(second), 120 * Scale)>>)]
    IN  IF mode = "noAdpCol" THEN DropColumn(full, "ADP") ELSE full

\* How far an input departs from the plain one (every source present and
\* agreeing, one ADP row per player): the inputs checked are those within
\* MaxDeviations departures, each with and without an output file left by an
\* earlier run.
Deviations(cells, second, mode, present, noPlayer, old) ==
    Cardinality({s \in Sources : cells[s] # "lo"})
    + Cardinality(Sources \ present) + Cardinality(noPlayer)
    + (IF second = "none" THEN 0 ELSE 1) + (IF mode = "all" THEN 0 ELSE 1)
    + (IF old THEN 1 ELSE 0)

\* What an earlier season's run may have left in processed/.
StaleRows == <<[Player |-> "Rob Gronkowski", Rank |-> 1]>>

NoFile == [exists |-> FALSE, rows |-> <<>>]

Init ==
    \E cells \in [Sources -> CellKinds], second \in SecondKinds, mode \in AdpModes,
       present \in SUBSET Sources, noPlayer \in SUBSET Sources, old \in BOOLEAN,
       stale \in BOOLEAN :
        /\ Deviations(cells, second, mode, present, noPlayer, old) <= MaxDeviations
        /\ \A s \in Sources \ present : cells[s] = "lo" /\ s \notin noPlayer
        /\ Cardinality(noPlayer) <= 1
        /\ projDir = [f \in {FileOf(s) : s \in present}
                            \cup (IF old THEN {OldFileName} ELSE {}) |->
                        IF f = OldFileName THEN OldFile
                        ELSE LET s == CHOOSE s \in present : FileOf(s) = f
                             IN  SourceFile(s, cells[s], second, s \notin noPlayer)]
        /\ adpDir = IF mode = "missing" THEN [f \in {} |-> EmptyFrame]
                    ELSE [f \in {AdpFileName} |-> AdpFile(mode, second)]
        /\ outFile = IF stale THEN [exists |-> TRUE, rows |-> StaleRows] ELSE NoFile
        /\ pc = "load_projections"
        /\ error = NotRaised
        /\ listing = <<>>
        /\ projections = EmptyFrame
        /\ adp = EmptyFrame
        /\ df = EmptyFrame
        /\ df_final = EmptyFrame
        /\ run = 1
        /\ firstOut = NoFile
        /\ firstDf = EmptyFrame

-----------------------------------------------------------------------------
(* aggregate_data, statement by statement *)

\* The orders in which os.listdir may enumerate the files of a directory.
Listings(dir) ==
    {l \in [1..Cardinality(DOMAIN dir) -> DOMAIN dir] :
        \A i, j \in DOMAIN l : i # j => l[i] # l[j]}

\* Where the run goes after a statement that returned `exc`.
After(exc, next) == IF exc = NoError THEN next ELSE "failed"

\* Line 13: projections = load_projections(year).
LoadProjections ==
    /\ pc = "load_projections"
    /\ \E files \in Listings(projDir) :
        LET res == load_projections(projDir, files)
        IN  /\ listing' = files
            /\ error' = Raised(res.error, "load_projections")
            /\ projections' = res.frame
            /\ pc' = After(res.error, "load_adp")
    /\ UNCHANGED <<projDir, adpDir, outFile, adp, df, df_final, run, firstOut, firstDf>>

\* Line 14: adp = load_adp(year).
LoadAdp ==
    /\ pc = "load_adp"
    /\ LET res == load_adp(adpDir)
       IN  /\ error' = Raised(res.error, "load_adp")
           /\ adp' = res.frame
           /\ pc' = After(res.error, "merge")
    /\ UNCHANGED <<projDir, adpDir, outFile, listing, projections, df, df_final,
                   run, firstOut, firstDf>>

\* Line 17: df = pd.merge(projections, adp, on = 'Player', how = 'left').
Merge ==
    /\ pc = "merge"
    /\ df' = merge(projections, adp, "left", "_x")
    /\ pc' = "calculate_vorp"
    /\ UNCHANGED <<projDir, adpDir, outFile, error, listing, projections, adp,
                   df_final, run, firstOut, firstDf>>

\* Line 22: df = calculate_vorp(df).
CalculateVorp ==
    /\ pc = "calculate_vorp"
    /\ LET res == calculate_vorp(df)
       IN  /\ error' = Raised(res.error, "calculate_vorp")
           /\ df' = res.frame
           /\ pc' = After(res.error, "volatility")
    /\ UNCHANGED <<projDir, adpDir, outFile, listing, projections, adp, df_final,
                   run, firstOut, firstDf>>

\* Lines 25-29: the Volatility column.
Volatility ==
    /\ pc = "volatility"
    /\ df' = volatility(df)
    /\ pc' = "calculate_tiers"
    /\ UNCHANGED <<projDir, adpDir, outFile, error, listing, projections, adp,
                   df_final, run, firstOut, firstDf>>

\* KMeans is seeded (random_state = 42): on the matrix it was given in the
\* first invocation it returns the labels it returned then, so a position whose
\* VORP and ADP columns are those of the first invocation gets the same tiers.
SameMatrix(frame, earlier, pos) ==
    /\ {"Pos", "VORP", "ADP", "Tier"} \subseteq earlier.cols
    /\ LET now == RowsAt(frame, pos)
           then == RowsAt(earlier, pos)
       IN  /\ Len(now) = Len(then)
           /\ \A i \in 1..Len(now) :
                now[i]["VORP"] = then[i]["VORP"] /\ now[i]["ADP"] = then[i]["ADP"]

Reproduces(frame, clustering, earlier) ==
    \A pos \in DOMAIN clustering :
        SameMatrix(frame, earlier, pos) =>
            LET then == RowsAt(earlier, pos)
            IN  PositionTiers(RowsAt(frame, pos), clustering[pos])
                    = MkSeq([i \in 1..Len(then) |-> then[i]["Tier"]])

\* Line 32: df = calculate_tiers(df), for each labelling KMeans may return.
CalculateTiers ==
    /\ pc = "calculate_tiers"
    /\ \E clustering \in Clusterings(df) :
        /\ Reproduces(df, clustering, firstDf)
        /\ LET res == calculate_tiers(df, clustering)
           IN  /\ error' = Raised(res.error, "calculate_tiers")
               /\ df' = res.frame
               /\ pc' = After(res.error, "final_assembly")
    /\ UNCHANGED <<projDir, adpDir, outFile, listing, projections, adp, df_final,
                   run, firstOut, firstDf>>

\* Lines 36-44: df_final.
FinalAssembly ==
    /\ pc = "final_assembly"
    /\ LET res == final_assembly(df)
       IN  /\ error' = Raised(res.error, "final_assembly")
           /\ df_final' = res.frame
           /\ pc' = After(res.error, "to_json")
    /\ UNCHANGED <<projDir, adpDir, outFile, listing, projections, adp, df, run,
                   firstOut, firstDf>>

\* Lines 47-48: df_final.to_json(output_path, orient = 'records').
WriteOutput ==
    /\ pc = "to_json"
    /\ outFile' = [exists |-> TRUE, rows |-> df_final.rows]
    /\ pc' = "done"
    /\ UNCHANGED <<projDir, adpDir, error, listing, projections, adp, df, df_final,
                   run, firstOut, firstDf>>

\* aggregate_data is invoked again on the same files (lines 161-164).
Rerun ==
    /\ pc = "done"
    /\ run = 1
    /\ run' = 2
    /\ firstOut' = outFile
    /\ firstDf' = df
    /\ pc' = "load_projections"
    /\ listing' = <<>>
    /\ projections' = EmptyFrame
    /\ adp' = EmptyFrame
    /\ df' = EmptyFrame
    /\ df_final' = EmptyFrame
    /\ UNCHANGED <<projDir, adpDir, outFile, error>>

Next ==
    \/ LoadProjections
    \/ LoadAdp
    \/ Merge
    \/ CalculateVorp
    \/ Volatility
    \/ CalculateTiers
    \/ FinalAssembly
    \/ WriteOutput

Spec == Init /\ [][Next]_vars

NextRerun == Next \/ Rerun

SpecRerun == Init /\ [][NextRerun]_vars

-----------------------------------------------------------------------------
(* Properties of load_projections *)

\* The projection files of the season, in some order.
ProjectionFiles ==
    SetToSeq({f \in DOMAIN projDir : EndsWith(f, "-" \o Year \o ".csv")})

\* The value source file `file`, as read, reports for `player` in column c;
\* NaN when it reports none.
ReportedBy(file, player, c) ==
    LET source == ReadSource(projDir, file)
        rs == RowsOf(source, player)
    IN  IF c \notin source.cols THEN NaN
        ELSE Mean(MkSeq([i \in 1..Len(rs) |-> rs[i][c]]))

\* The values the sources report for `player` in column c, one per source
\* that reports one.
ReportedValues(player, c) ==
    SelectSeq(MkSeq([n \in 1..Len(ProjectionFiles) |->
                        ReportedBy(ProjectionFiles[n], player, c)]),
              LAMBDA v : ~IsNaN(v))

\* C1: once load_projections has returned, every stat that two or more
\* sources report for a player has in the consensus table the arithmetic mean
\* of the values of all the sources reporting it.
C1_ConsensusIsMeanOverSources ==
    pc = "load_adp" =>
        \A i \in 1..Len(projections.rows) : \A c \in Range(StatColumns) :
            LET reported == ReportedValues(projections.rows[i]["Player"], c)
            IN  Len(reported) >= 2 =>
                    /\ c \in projections.cols
                    /\ projections.rows[i][c] = Mean(reported)

\* A stat of one row, 0 when the column is absent or the cell is empty.
ZeroIfMissing(frame, r, c) ==
    IF c \notin frame.cols THEN 0 ELSE IF IsNaN(r[c]) THEN 0 ELSE r[c]

\* The half-PPR score of one row with every missing stat counted as 0.
HalfPPR(frame, r) ==
    RoundDiv(2 * ZeroIfMissing(frame, r, "Pass_Yds")
             + 200 * ZeroIfMissing(frame, r, "Pass_TD")
             - 100 * ZeroIfMissing(frame, r, "Int")
             + 5 * ZeroIfMissing(frame, r, "Rush_Yds")
             + 300 * ZeroIfMissing(frame, r, "Rush_TD")
             + 25 * ZeroIfMissing(frame, r, "Rec")
             + 5 * ZeroIfMissing(frame, r, "Rec_Yds")
             + 300 * ZeroIfMissing(frame, r, "Rec_TD"), 50)

\* C2: once load_projections has returned, every player's Projected_Points is
\* the half-PPR combination of its stats with each missing stat counted as 0,
\* and so is never missing.
C2_PointsCountMissingAsZero ==
    pc = "load_adp" =>
        \A i \in 1..Len(projections.rows) :
            /\ ~IsNaN(projections.rows[i]["Projected_Points"])
            /\ projections.rows[i]["Projected_Points"]
                   = HalfPPR(projections, projections.rows[i])

\* The projection files of the season in the order os.listdir returned them.
ListedFiles == SelectSeq(listing, LAMBDA f : EndsWith(f, "-" \o Year \o ".csv"))

\* What source file `file`, as read, reports for `player` in the object column
\* c; None when it reports nothing.
MetaReportedBy(file, player, c) ==
    LET source == ReadSource(projDir, file)
        rs == SelectSeq(RowsOf(source, player), LAMBDA r : r[c] # None)
    IN  IF c \notin source.cols THEN None
        ELSE IF Len(rs) = 0 THEN None
        ELSE rs[1][c]

\* The values the sources report for `player` in the object column c, in the
\* order of the listing, one per source that reports one.
MetaReported(player, c) ==
    SelectSeq(MkSeq([n \in 1..Len(ListedFiles) |->
                        MetaReportedBy(ListedFiles[n], player, c)]),
              LAMBDA v : v # None)

\* C11: once load_projections has returned from two or more sources, Team and
\* Pos of every player are the first value any source reported for the
\* player, so a player of a single source has that source's Team and Pos.
C11_MetaIsFirstReported ==
    (pc = "load_adp" /\ Len(ListedFiles) >= 2) =>
        \A i \in 1..Len(projections.rows) : \A c \in {"Team", "Pos"} :
            LET reported == MetaReported(projections.rows[i]["Player"], c)
            IN  Len(reported) >= 1 =>
                    /\ c \in projections.cols
                    /\ projections.rows[i][c] = reported[1]

-----------------------------------------------------------------------------
(* Properties of calculate_vorp *)

\* The players of one position, best Projected_Points first.
BestFirst(frame, pos) == RowsAt(SortDescending(frame, "Projected_Points"), pos)

\* C3: once calculate_vorp has returned, at every position with a replacement
\* index N and more than N players, each player's VORP is its Projected_Points
\* minus those of the Nth-best player of the position, whose VORP is thus 0.
C3_BaselineIsNthBest ==
    pc = "volatility" =>
        \A pos \in DOMAIN replacement_levels :
            LET pos_df == BestFirst(df, pos)
                N == replacement_levels[pos]
            IN  Len(pos_df) > N =>
                    /\ pos_df[N]["VORP"] = 0
                    /\ \A i \in 1..Len(pos_df) :
                           pos_df[i]["VORP"]
                               = VorpOf(pos_df[i]["Projected_Points"],
                                        pos_df[N]["Projected_Points"])

\* A position calculate_vorp has no replacement player for: no configured
\* index, or at most that many players.
NoReplacement(frame, pos) ==
    \/ pos \notin DOMAIN replacement_levels
    \/ Len(RowsAt(frame, pos)) <= replacement_levels[pos]

\* C4: calculate_vorp raises no error, and once it has returned, every player
\* of a position with no configured replacement index, or with at most that
\* many players, has a VORP equal to its Projected_Points (baseline 0).
C4_FallbackBaselineIsZero ==
    /\ error.stage # "calculate_vorp"
    /\ pc = "volatility" =>
        \A i \in 1..Len(df.rows) :
            NoReplacement(df, df.rows[i]["Pos"]) =>
                df.rows[i]["VORP"] = df.rows[i]["Projected_Points"]

\* A kicker (no configured index) and exactly as many tight ends as the
\* tight-end index have been valued, with points that are not 0.
C4_Witness ==
    /\ pc = "volatility"
    /\ Len(RowsAt(df, "TE")) = replacement_levels["TE"]
    /\ \E i \in 1..Len(df.rows) :
        df.rows[i]["Pos"] = "TE" /\ df.rows[i]["VORP"] > 0
    /\ \E i \in 1..Len(df.rows) : df.rows[i]["Pos"] = "K"

-----------------------------------------------------------------------------
(* Properties of the volatility step *)

\* The source ranks of one row, in some order.
RanksOf(frame, r) ==
    LET cols == SetToSeq({c \in frame.cols : Contains(c, "_Rank")})
    IN  MkSeq([j \in 1..Len(cols) |-> r[cols[j]]])

\* The standard deviations of the rank of every row that has one.
DefinedStds(frame) ==
    {Std(RanksOf(frame, frame.rows[i])) : i \in 1..Len(frame.rows)} \ {NaN}

\* C5: once the volatility step is done, every Volatility is a number from 1
\* to 10; it is 5 for a player with fewer than two source ranks, and 5 for
\* every player when all the defined standard deviations are equal.
C5_VolatilityInRange ==
    pc = "calculate_tiers" =>
        /\ \A i \in 1..Len(df.rows) :
            /\ ~IsNaN(df.rows[i]["Volatility"])
            /\ df.rows[i]["Volatility"] >= Scale
            /\ df.rows[i]["Volatility"] <= 10 * Scale
            /\ Len(SelectSeq(RanksOf(df, df.rows[i]), LAMBDA v : ~IsNaN(v))) < 2
                   => df.rows[i]["Volatility"] = 5 * Scale
        /\ Cardinality(DefinedStds(df)) <= 1 =>
               \A i \in 1..Len(df.rows) : df.rows[i]["Volatility"] = 5 * Scale

\* A player ranked by a single source got Volatility 5, in a pool where the
\* ranks of every other player have the same standard deviation.
C5_Witness ==
    /\ pc = "calculate_tiers"
    /\ Cardinality(DefinedStds(df)) = 1
    /\ \E i \in 1..Len(df.rows) :
        /\ Len(SelectSeq(RanksOf(df, df.rows[i]), LAMBDA v : ~IsNaN(v))) = 1
        /\ df.rows[i]["Volatility"] = 5 * Scale

-----------------------------------------------------------------------------
(* Properties of calculate_tiers *)

\* The Tier values of the players of one position.
TiersAt(frame, pos) ==
    LET pos_df == RowsAt(frame, pos)
    IN  {pos_df[i]["Tier"] : i \in 1..Len(pos_df)}

\* The VORPs present in one tier of one position.
TierVorps(frame, pos, tier) ==
    LET present == SelectSeq(RowsAt(frame, pos),
                             LAMBDA r : r["Tier"] = tier /\ ~IsNaN(r["VORP"]))
    IN  MkSeq([i \in 1..Len(present) |-> present[i]["VORP"]])

\* The mean of a is defined, and so is that of b, and it is at least that of b.
MeanAtLeast(a, b) ==
    /\ Len(a) > 0
    /\ Len(b) > 0
    /\ SumSeq(a) * Len(b) >= SumSeq(b) * Len(a)

\* C6, as claimed: once calculate_tiers has returned, at every position with
\* a tier count k and at least k players, the Tier values are exactly 1..k and
\* the mean VORP of tier i is at least that of tier i+1.
C6_TiersAreOneToK ==
    pc = "final_assembly" =>
        \A pos \in DOMAIN tier_counts :
            LET k == tier_counts[pos]
            IN  Len(RowsAt(df, pos)) >= k =>
                    /\ TiersAt(df, pos) = 1..k
                    /\ \A i \in 1..(k - 1) :
                           MeanAtLeast(TierVorps(df, pos, i), TierVorps(df, pos, i + 1))

\* C6, amended: once calculate_tiers has returned, at every position with a
\* tier count k and at least k players, the Tier values are exactly 1..j for
\* the number j <= k of clusters the clustering step returned, and of two
\* consecutive tiers the second has no VORP at all or a mean VORP that is at
\* most that of the first.
C6_TiersAreOneToJ ==
    pc = "final_assembly" =>
        \A pos \in DOMAIN tier_counts :
            LET k == tier_counts[pos]
                j == Cardinality(TiersAt(df, pos))
            IN  Len(RowsAt(df, pos)) >= k =>
                    /\ j >= 1
                    /\ j <= k
                    /\ TiersAt(df, pos) = 1..j
                    /\ \A i \in 1..(j - 1) :
                           \/ Len(TierVorps(df, pos, i + 1)) = 0
                           \/ MeanAtLeast(TierVorps(df, pos, i),
                                          TierVorps(df, pos, i + 1))

\* The tight ends have been put in three tiers of different mean VORP, fewer
\* than the seven configured.
C6_Witness ==
    /\ pc = "final_assembly"
    /\ Len(RowsAt(df, "TE")) >= tier_counts["TE"]
    /\ TiersAt(df, "TE") = 1..3
    /\ ~MeanAtLeast(TierVorps(df, "TE", 2), TierVorps(df, "TE", 1))
    /\ ~MeanAtLeast(TierVorps(df, "TE", 3), TierVorps(df, "TE", 2))

-----------------------------------------------------------------------------
(* Properties of the output *)

\* a >= b between two numbers that are both present.
AtLeast(a, b) == ~IsNaN(a) /\ ~IsNaN(b) /\ a >= b

\* C7: in the output written, the row at place i has Rank i, so that the
\* ranks are 1..N each once, and a row never has a smaller VORP than a row of
\* greater Rank.
C7_RankFollowsVorp ==
    pc = "done" =>
        /\ \A i \in 1..Len(outFile.rows) : outFile.rows[i]["Rank"] = i
        /\ \A a, b \in 1..Len(outFile.rows) :
            outFile.rows[a]["Rank"] < outFile.rows[b]["Rank"] =>
                AtLeast(outFile.rows[a]["VORP"], outFile.rows[b]["VORP"])

\* The projection fields of row r.
ProjectionFields(r) == MkFcn([c \in projections.cols |-> r[c]])

\* C8: the merged table has the rows of the consensus table, one each, in
\* their fields unchanged; a player with no ADP row has ADP missing, and has
\* a VORP and a Volatility once these steps are done.
C8_OneRowPerPlayer ==
    /\ pc = "calculate_vorp" =>
        /\ Len(df.rows) = Len(projections.rows)
        /\ \A i \in 1..Len(df.rows) :
            /\ ProjectionFields(df.rows[i]) = projections.rows[i]
            /\ df.rows[i]["Player"] \notin PlayersOf(adp) => IsNaN(df.rows[i]["ADP"])
    /\ pc = "calculate_tiers" =>
        \A i \in 1..Len(df.rows) :
            df.rows[i]["Player"] \notin PlayersOf(adp) =>
                /\ ~IsNaN(df.rows[i]["Projected_Points"]) => ~IsNaN(df.rows[i]["VORP"])
                /\ ~IsNaN(df.rows[i]["Volatility"])

-----------------------------------------------------------------------------
(* Properties of the run as a whole *)

\* df_final carries what every step of the run adds.
StagesCompleted ==
    {"Projected_Points", "ADP", "VORP", "Volatility", "Tier"} \subseteq df.cols
    /\ OutputColumns \cup {"Rank"} \subseteq df_final.cols

\* A projection file of a source the output names is missing, the ADP file is
\* missing, or a projection file of the season has no Player column.
RequiredInputMissing ==
    \/ \E s \in Sources : FileOf(s) \notin DOMAIN projDir
    \/ AdpFileName \notin DOMAIN adpDir
    \/ \E n \in 1..Len(ProjectionFiles) : "Player" \notin projDir[ProjectionFiles[n]].cols

\* C9: the output file changes only in the last step, to_json, taken after
\* every other step has completed without error; a step that fails ends the
\* run with its exception recorded and the output file as it was; and a run
\* whose required input is missing never gets to write.
C9_OutputWrittenLast ==
    [][/\ outFile' # outFile =>
            pc = "to_json" /\ pc' = "done" /\ error = NotRaised /\ StagesCompleted
       /\ pc' = "failed" => error' # NotRaised /\ outFile' = outFile
       /\ error' # NotRaised => pc' = "failed"
       /\ RequiredInputMissing => pc' \notin {"to_json", "done"}]_vars

\* A run has failed for want of the ADP file and the output file an earlier
\* run left is still what it was.
C9_Witness ==
    /\ pc = "failed"
    /\ error.exc = "FileNotFoundError"
    /\ outFile = [exists |-> TRUE, rows |-> StaleRows]

\* C10: a second run on the same files writes the output the first run wrote.
C10_RerunWritesSameOutput ==
    (run = 2 /\ pc = "done") => outFile = firstOut

=============================================================================
